---------------------------- MODULE Spec2Model ----------------------------
(***************************************************************************)
(* The programs of the ADK multiagent system.                              *)
(* run.py (Spec): main() checks the                                        *)
(* environment, run_<agent>_agent() calls the selected agent factory, the  *)
(* factory acquires subprocess-backed tool connections on AsyncExitStacks, *)
(* run_agent_interactive() drives the read-call-print loop and releases    *)
(* the stack in its finally clause.                                        *)
(* diagnostics.py (SpecDiagnostics): the Config singleton of config.py is  *)
(* built from the environment and validate() decides the exit status.      *)
(* test_mcp_tools.py (SpecMcpTest): main() runs test_mcp_connection() for  *)
(* one server or for each, and exits with 0 when every test returned True. *)
(* tests/test_planning.py (SpecPlanningTest): the coordinator is created,  *)
(* the planning operations run in a try block whose finally clause closes  *)
(* the coordinator's exit stack.                                           *)
(* The two Google search tools (SpecSearch): a call clamps num_results,    *)
(* sends the request and turns the response or the error into a result.    *)
(* createLLMContext.py (SpecContext): the walk over the project tree that  *)
(* writes one entry for each file it does not leave out.                   *)
(***************************************************************************)
EXTENDS Integers, Sequences, FiniteSets

VARIABLES
    env,            \* os.environ, the variables the program reads
    custom_search_tool_class,  \* research/agent.py: the imported class or "None"
    pathExists,     \* os.path.exists(PLANNING_MCP_PATH)
    agent_type,     \* args.agent
    pc,             \* position of run.py's control flow
    env_ok,         \* value returned by check_environment_setup()
    exit_status,    \* <<>> while the process runs, then <<status>>
    exc,            \* the exception in flight: [kind, origin]
    fpc,            \* position of each agent factory
    idx,            \* index of the coordinator's loop over the factories
    cause,          \* why each factory raised: "none", "setup", "agent"
    tools,          \* all_tools of each factory (the tools of its Agent)
    sub_agents,     \* specialized_agents of the coordinator
    stacks,         \* exit_stack of each factory: the entries pushed on it
    conns,          \* connections spawned by MCPToolset.from_server, in order
    released,       \* releases of connections, in order: [conn, at]
    faults,         \* failing or malformed from_server results drawn so far
    turns,          \* agent calls issued by the interactive loop
    outstanding,    \* agent calls awaited and not yet returned
    reported,       \* calls whose response or error has been printed
    session,        \* "none", "running", "ended": run_agent_interactive's loop
    config,         \* config.py: the Config singleton, NoConfig before import
    validation,     \* diagnostics.py: the value of config.validate()
    closes,         \* calls of __aexit__ on the exit stack of each factory
    attempts,       \* calls of the setup_*_mcp_tools functions: [owner, server]
    calls,          \* calls of each agent factory
    user_input,     \* run_agent_interactive: the line last read
    args_server,    \* test_mcp_tools.py: args.server
    todo,           \* test_mcp_tools.py: the servers still to test
    results,        \* test_mcp_tools.py: [server, success] of each test made
    success,        \* tests/test_planning.py: value of test_planning_operations()
    completed,      \* tests/test_planning.py: planning operations completed
    instruction,    \* the instruction of the Agent each factory built
    research,       \* create_research_agent: tool_name and the constructor's outcome
    summary,        \* diagnostics.py: the enabled servers config.summary() lists
    search,         \* a search tool call: the tool, its service, num_results
    request,        \* the request made to the search API and its response
    search_result,  \* the dictionary the search tool returned
    files,          \* createLLMContext.py: the files under the root, as paths
    args_exclude_files, \* createLLMContext.py: args.exclude_files
    exclude_files,  \* createLLMContext.py: the module's set EXCLUDE_FILES
    walk,           \* createLLMContext.py: directories os.walk has yet to yield
    entries         \* createLLMContext.py: paths of the entries written, in order

vars == <<env, custom_search_tool_class, pathExists, agent_type, pc, env_ok, exit_status, exc, fpc, idx,
          cause, tools, sub_agents, stacks, conns, released, faults, turns,
          outstanding, reported, session, config, validation, closes,
          attempts, calls, user_input, args_server, todo, results, success,
          completed, instruction, research, summary, search, request,
          search_result, files, args_exclude_files, exclude_files, walk,
          entries>>

\* the state of a call of a search tool
searchVars == <<search, request, search_result>>

\* the state of createLLMContext.py
contextVars == <<files, args_exclude_files, exclude_files, walk, entries>>

\* the state of the two test programs
testVars == <<args_server, todo, results, success, completed>>

-----------------------------------------------------------------------------
(* Bounds of the model *)

\* failing or malformed MCPToolset.from_server results injected in one run
MaxSetupFaults == 1

\* agent calls issued in one interactive session
MaxTurns == 1

\* num_results of a search ranges over -MaxNumResults..MaxNumResults
MaxNumResults == 12

\* items in one response of the search API
MaxItems == 2

-----------------------------------------------------------------------------
(* Names *)

Coordinator == "coordination"

\* the choices of --agent
AgentTypes ==
    {"coordination", "backend", "frontend", "designer", "research", "tester",
     "optimizer"}

\* the factories the coordinator calls, in order
specialized_agent_factories ==
    <<"backend", "frontend", "designer", "research", "tester", "optimizer">>

Specialized == {specialized_agent_factories[i] : i \in 1..Len(specialized_agent_factories)}

\* a value of os.environ.get(name): None, "" or a non-empty string
EnvVals == {"unset", "empty", "set"}

\* Python truthiness of os.environ.get(name)
NonEmpty(v) == v = "set"

NoExc == [kind |-> "none", origin |-> "none", by |-> "none"]

RECURSIVE Count(_, _)
\* number of releases of connection c in log
Count(c, log) ==
    IF log = <<>> THEN 0
    ELSE (IF Head(log).conn = c THEN 1 ELSE 0) + Count(c, Tail(log))

-----------------------------------------------------------------------------
(* run.py: the environment check *)

\* the keys of required_vars, in order
required_vars == <<"GOOGLE_API_KEY", "PLANNING_MCP_PATH", "PLANNING_API_TOKEN">>

\* the required variables for which os.environ.get(var) is falsy
missing_vars(e) ==
    SelectSeq(required_vars, LAMBDA v : ~NonEmpty(e[v]))

\* check_environment_setup without its test of the path
check_environment_setup_NoPathCheck(e, pe) ==
    missing_vars(e) = <<>>

check_environment_setup(e, pe) ==
    IF missing_vars(e) # <<>> THEN FALSE
    ELSE IF NonEmpty(e["PLANNING_MCP_PATH"]) /\ ~pe THEN FALSE
    ELSE TRUE

-----------------------------------------------------------------------------
(* tools/mcp_tools.py: the setup_*_mcp_tools functions *)

Servers == {"planning", "filesystem", "context7", "playwright"}

\* what MCPToolset.from_server can hand back: it raises before a connection
\* exists, or it has spawned the server and returns the (tools, exit_stack)
\* tuple, an object carrying tools and exit_stack, or a result from which the
\* two cannot be extracted
FromServerResults ==
    {"FileNotFoundError", "Exception", "tuple", "object", "unexpected"}

FaultyResults == {"FileNotFoundError", "Exception", "unexpected"}

\* configuration checks that look at the token before the path is tested
setup_precheck_TokenFirst(server, e, pe) ==
    IF server # "planning" THEN "none"
    ELSE IF ~NonEmpty(e["PLANNING_MCP_PATH"]) THEN "ValueError"
    ELSE IF ~NonEmpty(e["PLANNING_API_TOKEN"]) THEN "ValueError"
    ELSE IF ~pe THEN "FileNotFoundError"
    ELSE "none"

\* the configuration checks made before the server is spawned: the exception
\* raised, or "none"
setup_precheck(server, e, pe) ==
    IF server # "planning" THEN "none"
    ELSE IF ~NonEmpty(e["PLANNING_MCP_PATH"]) THEN "ValueError"
    ELSE IF ~pe THEN "FileNotFoundError"
    ELSE IF ~NonEmpty(e["PLANNING_API_TOKEN"]) THEN "ValueError"
    ELSE "none"

\* setup_<server>_mcp_tools() with from_server handing back r:
\* called: MCPToolset.from_server was called; spawned: a subprocess connection
\* exists afterwards; raised: the exception leaving the function, "none" when
\* it returns (tools, exit_stack)
setup_mcp_tools(server, e, pe, r) ==
    LET pre == setup_precheck(server, e, pe) IN
    IF pre # "none"
        THEN [called |-> FALSE, spawned |-> FALSE, raised |-> pre]
    ELSE IF r \in {"FileNotFoundError", "Exception"}
        THEN [called |-> TRUE, spawned |-> FALSE, raised |-> r]
    ELSE IF r = "tuple"
        THEN [called |-> TRUE, spawned |-> TRUE, raised |-> "none"]
    ELSE IF r = "object"
        THEN [called |-> TRUE, spawned |-> TRUE, raised |-> "none"]
    ELSE [called |-> TRUE, spawned |-> TRUE, raised |-> "ValueError"]

-----------------------------------------------------------------------------
(* contextlib.AsyncExitStack as the factories use it *)

\* an entry pushed by enter_async_context: the stack of one connection, or
\* the exit stack of a specialized agent
ConnEntry(c) == [conn |-> c, stack |-> "none"]
StackEntry(a) == [conn |-> 0, stack |-> a]

RECURSIVE ExitOrderFifo(_, _)
\* an exit stack that runs its callbacks first-in first-out
ExitOrderFifo(stks, s) ==
    LET st == stks[s] IN
    IF st = <<>> THEN <<>>
    ELSE LET rest == [stks EXCEPT ![s] = Tail(st)]
         IN  (IF Head(st).stack = "none" THEN <<Head(st).conn>>
              ELSE ExitOrderFifo(rest, Head(st).stack))
             \o ExitOrderFifo(rest, s)

RECURSIVE ExitOrder(_, _)
\* the connections exit_stack.__aexit__ of stack s closes, in order:
\* callbacks are popped last-in first-out, a nested stack closes its own
ExitOrder(stks, s) ==
    LET st == stks[s] IN
    IF st = <<>> THEN <<>>
    ELSE LET top  == st[Len(st)]
             rest == [stks EXCEPT ![s] = SubSeq(st, 1, Len(st) - 1)]
         IN  (IF top.stack = "none" THEN <<top.conn>>
              ELSE ExitOrder(rest, top.stack))
             \o ExitOrder(rest, s)

RECURSIVE Nested(_, _)
\* stack s and the stacks entered on it
Nested(stks, s) ==
    {s} \cup UNION {Nested(stks, stks[s][i].stack) :
                      i \in {j \in 1..Len(stks[s]) : stks[s][j].stack # "none"}}

\* the stacks after __aexit__ of s: every callback has been popped
AfterExit(stks, s) ==
    [a \in DOMAIN stks |-> IF a \in Nested(stks, s) THEN <<>> ELSE stks[a]]

\* the count of __aexit__ calls after __aexit__ of s: s is closed, and so is
\* every stack entered on it
AfterClose(cl, stks, s) ==
    [a \in DOMAIN cl |-> IF a \in Nested(stks, s) THEN cl[a] + 1 ELSE cl[a]]

\* the release log after __aexit__ of s during phase at
LogExit(log, stks, s, at) ==
    LET ord == ExitOrder(stks, s) IN
    log \o [i \in 1..Len(ord) |-> [conn |-> ord[i], at |-> at]]

-----------------------------------------------------------------------------
(* The agent factories *)

\* the position a factory starts at, after exit_stack.__aenter__() and the
\* construction of its LiteLlm
FirstStep(a) ==
    CASE a = Coordinator -> "planning"
      [] a = "research"  -> "tool"
      [] OTHER           -> "setup1"

\* a drawn from_server result counts against MaxSetupFaults
FaultDrawn(server, r) ==
    setup_precheck(server, env, pathExists) = "none" /\ r \in FaultyResults

\* a setup inside try/except that is attempted again after it failed
Setup_Retry(a, at, server, guarded, next) ==
    /\ fpc[a] = at
    /\ \E r \in FromServerResults :
        /\ FaultDrawn(server, r) => faults < MaxSetupFaults
        /\ faults' = IF FaultDrawn(server, r) THEN faults + 1 ELSE faults
        /\ LET res == setup_mcp_tools(server, env, pathExists, r)
               ok  == res.raised = "none"
               cs  == IF res.spawned
                      THEN Append(conns, [server |-> server, owner |-> a,
                                          entered |-> ok])
                      ELSE conns
           IN  /\ attempts' = Append(attempts, [owner |-> a, server |-> server,
                                                  called |-> res.called])
               /\ conns' = cs
               /\ stacks' = IF ok
                            THEN [stacks EXCEPT ![a] = Append(@, ConnEntry(Len(cs)))]
                            ELSE stacks
               /\ tools' = IF ok THEN [tools EXCEPT ![a] = Append(@, server)]
                           ELSE tools
               /\ fpc' = [fpc EXCEPT ![a] = IF ok THEN next
                                            ELSE IF guarded THEN at
                                            ELSE "except"]
               /\ exc' = IF ok \/ guarded THEN exc
                         ELSE [kind |-> res.raised, origin |-> "setup", by |-> a]
    /\ UNCHANGED <<env, custom_search_tool_class, pathExists, agent_type, pc,
                   env_ok, exit_status, idx, cause, sub_agents, released,
                   turns, outstanding, reported, session, config,
                   validation, closes, calls, user_input, testVars,
                   instruction, research, summary,
                   searchVars, contextVars>>

\* tools, stack = await setup_<server>_mcp_tools();
\* await exit_stack.enter_async_context(stack); all_tools.extend(tools)
\* at position at of factory a; guarded: inside try/except Exception
Setup(a, at, server, guarded, next) ==
    /\ fpc[a] = at
    /\ \E r \in FromServerResults :
        /\ FaultDrawn(server, r) => faults < MaxSetupFaults
        /\ faults' = IF FaultDrawn(server, r) THEN faults + 1 ELSE faults
        /\ LET res == setup_mcp_tools(server, env, pathExists, r)
               ok  == res.raised = "none"
               cs  == IF res.spawned
                      THEN Append(conns, [server |-> server, owner |-> a,
                                          entered |-> ok])
                      ELSE conns
           IN  /\ attempts' = Append(attempts, [owner |-> a, server |-> server,
                                                  called |-> res.called])
               /\ conns' = cs
               /\ stacks' = IF ok
                            THEN [stacks EXCEPT ![a] = Append(@, ConnEntry(Len(cs)))]
                            ELSE stacks
               /\ tools' = IF ok THEN [tools EXCEPT ![a] = Append(@, server)]
                           ELSE tools
               /\ fpc' = [fpc EXCEPT ![a] = IF ok \/ guarded THEN next ELSE "except"]
               /\ exc' = IF ok \/ guarded THEN exc
                         ELSE [kind |-> res.raised, origin |-> "setup", by |-> a]
    /\ UNCHANGED <<env, custom_search_tool_class, pathExists, agent_type, pc,
                   env_ok, exit_status, idx, cause, sub_agents, released,
                   turns, outstanding, reported, session, config,
                   validation, closes, calls, user_input, testVars,
                   instruction, research, summary,
                   searchVars, contextVars>>

\* the instruction of an agent that was not built
NoInstruction == [delegation |-> <<>>, workflow |-> <<>>, search |-> "none"]

\* Agent(name=...) of each factory
name(a) ==
    CASE a = "backend"   -> "backend_developer_agent"
      [] a = "frontend"  -> "frontend_developer_agent"
      [] a = "designer"  -> "designer_agent"
      [] a = "research"  -> "research_agent"
      [] a = "tester"    -> "tester_agent"
      [] a = "optimizer" -> "plan_optimizer_agent"
      [] OTHER           -> "coordination_agent"

\* a list of descriptions that looks for the tester under another name
described_agents_OtherTester ==
    <<"backend_developer_agent", "frontend_developer_agent", "designer_agent",
      "research_agent", "testing_agent", "plan_optimizer_agent">>

\* the names the coordinator tests agent_names for when it collects
\* agent_descriptions, in the order of its if statements
described_agents ==
    <<"backend_developer_agent", "frontend_developer_agent", "designer_agent",
      "research_agent", "tester_agent", "plan_optimizer_agent">>

\* the names it tests for when it extends delegation_workflow
workflow_agents ==
    <<"backend_developer_agent", "frontend_developer_agent", "designer_agent",
      "research_agent", "tester_agent", "plan_optimizer_agent">>

\* delegation_workflow when agent_names is empty
NoAgentsNote ==
    "NOTE: No specialized agents are currently available. Only planning operations are supported."

\* agent_names = [agent.name for agent in specialized_agents]
agent_names(agents) == [i \in 1..Len(agents) |-> name(agents[i])]

\* the agents named in specialized_agents_instruction, in order
agent_descriptions(names) ==
    SelectSeq(described_agents,
              LAMBDA n : \E i \in 1..Len(names) : names[i] = n)

\* the agents named in delegation_workflow, or the note that replaces it
delegation_workflow(names) ==
    IF names = <<>> THEN <<NoAgentsNote>>
    ELSE SelectSeq(workflow_agents,
                   LAMBDA n : \E i \in 1..Len(names) : names[i] = n)

\* search_instruction of the research agent: the tool it tells the agent to
\* call, or the note that web search is unavailable
search_instruction(tool_name) ==
    IF tool_name # "None" THEN tool_name ELSE "unavailable"

\* the instruction factory a passes to Agent()
Instruction(a) ==
    CASE a = Coordinator ->
            [delegation |-> agent_descriptions(agent_names(sub_agents)),
             workflow   |-> delegation_workflow(agent_names(sub_agents)),
             search     |-> "none"]
      [] a = "research" ->
            [delegation |-> <<>>, workflow |-> <<>>,
             search |-> search_instruction(research.tool_name)]
      [] OTHER -> NoInstruction

\* what the construction of the Agent can raise ("none": it returns)
AgentOutcomes == {"none", "ValueError", "Exception"}

\* agent = Agent(..., tools=all_tools); return agent, exit_stack
BuildAgent(a) ==
    /\ fpc[a] = "agent"
    /\ \E k \in AgentOutcomes :
        /\ fpc' = [fpc EXCEPT ![a] = IF k = "none" THEN "returned" ELSE "except"]
        /\ exc' = IF k = "none" THEN exc ELSE [kind |-> k, origin |-> "agent", by |-> a]
        /\ instruction' = IF k = "none"
                          THEN [instruction EXCEPT ![a] = Instruction(a)]
                          ELSE instruction
    /\ UNCHANGED <<env, custom_search_tool_class, pathExists, agent_type, pc,
                   env_ok, exit_status, idx, cause, tools, sub_agents, stacks,
                   conns, released, faults, turns, outstanding, reported,
                   session, config,
                   validation,
                   closes, attempts, calls, user_input, testVars,
                   research, summary,
                   searchVars, contextVars>>

\* an except clause that re-raises without closing the exit stack
FactoryExcept_NoCleanup(a) ==
    /\ fpc[a] = "except"
    /\ cause' = [cause EXCEPT ![a] = exc.origin]
    /\ fpc' = [fpc EXCEPT ![a] = "raised"]
    /\ UNCHANGED <<env, custom_search_tool_class, pathExists, agent_type, pc,
                   env_ok, exit_status, exc, idx, tools, sub_agents, stacks,
                   conns, released, faults, turns, outstanding, reported,
                   session, config, validation, closes, attempts, calls,
                   user_input, testVars,
                   instruction, research, summary,
                   searchVars, contextVars>>

\* except Exception as e: await exit_stack.__aexit__(type(e), e, tb); raise
FactoryExcept(a) ==
    /\ fpc[a] = "except"
    /\ released' = LogExit(released, stacks, a, "startup")
    /\ stacks' = AfterExit(stacks, a)
    /\ closes' = AfterClose(closes, stacks, a)
    /\ cause' = [cause EXCEPT ![a] = exc.origin]
    /\ fpc' = [fpc EXCEPT ![a] = "raised"]
    /\ UNCHANGED <<env, custom_search_tool_class, pathExists, agent_type, pc,
                   env_ok, exit_status, exc, idx, tools, sub_agents, conns,
                   faults, turns, outstanding, reported, session, config,
                   validation,
                   attempts, calls, user_input, testVars,
                   instruction, research, summary,
                   searchVars, contextVars>>

create_backend_dev_agent ==
    \/ Setup("backend", "setup1", "filesystem", TRUE, "setup2")
    \/ Setup("backend", "setup2", "context7", TRUE, "agent")
    \/ BuildAgent("backend")
    \/ FactoryExcept("backend")

create_frontend_dev_agent ==
    \/ Setup("frontend", "setup1", "filesystem", TRUE, "setup2")
    \/ Setup("frontend", "setup2", "context7", TRUE, "agent")
    \/ BuildAgent("frontend")
    \/ FactoryExcept("frontend")

create_designer_agent ==
    \/ Setup("designer", "setup1", "filesystem", FALSE, "agent")
    \/ BuildAgent("designer")
    \/ FactoryExcept("designer")

create_tester_agent ==
    \/ Setup("tester", "setup1", "playwright", TRUE, "setup2")
    \/ Setup("tester", "setup2", "filesystem", TRUE, "agent")
    \/ BuildAgent("tester")
    \/ FactoryExcept("tester")

create_plan_optimizer_agent ==
    \/ Setup("optimizer", "setup1", "planning", TRUE, "agent")
    \/ BuildAgent("optimizer")
    \/ FactoryExcept("optimizer")

\* the name of the research agent's search tool
SearchTool == "custom_google_search"

\* a setup of the search tool that does not look at the engine ID
ResearchToolSetup_NoEngineCheck ==
    /\ fpc["research"] = "tool"
    /\ \E built \in BOOLEAN :
        LET wanted == /\ custom_search_tool_class # "None"
                      /\ NonEmpty(env["GOOGLE_API_KEY"])
        IN  /\ tools' = IF wanted /\ built
                        THEN [tools EXCEPT !["research"] = Append(@, SearchTool)]
                        ELSE tools
            /\ research' =
                  [constructed |-> IF ~wanted THEN "not called"
                                   ELSE IF built THEN "returned" ELSE "raised",
                   tool_name   |-> IF wanted /\ built THEN SearchTool
                                   ELSE "None"]
    /\ fpc' = [fpc EXCEPT !["research"] = "agent"]
    /\ UNCHANGED <<env, custom_search_tool_class, pathExists, agent_type, pc,
                   env_ok, exit_status, exc, idx, cause, sub_agents, stacks,
                   conns, released, faults, turns, outstanding, reported,
                   session, config, validation, closes, attempts, calls,
                   user_input, testVars, instruction, summary,
                   searchVars, contextVars>>

\* the search tool is set up when the class was imported and both variables
\* are non-empty; its construction may raise, which is caught
ResearchToolSetup ==
    /\ fpc["research"] = "tool"
    /\ \E built \in BOOLEAN :
        LET wanted == /\ custom_search_tool_class # "None"
                      /\ NonEmpty(env["GOOGLE_API_KEY"])
                      /\ NonEmpty(env["PROGRAMMABLE_SEARCH_ENGINE_ID"])
        IN  /\ tools' = IF wanted /\ built
                        THEN [tools EXCEPT !["research"] = Append(@, SearchTool)]
                        ELSE tools
            /\ research' =
                  [constructed |-> IF ~wanted THEN "not called"
                                   ELSE IF built THEN "returned" ELSE "raised",
                   tool_name   |-> IF wanted /\ built THEN SearchTool
                                   ELSE "None"]
    /\ fpc' = [fpc EXCEPT !["research"] = "agent"]
    /\ UNCHANGED <<env, custom_search_tool_class, pathExists, agent_type, pc,
                   env_ok, exit_status, exc, idx, cause, sub_agents, stacks,
                   conns, released, faults, turns, outstanding, reported,
                   session, config,
                   validation,
                   closes, attempts, calls, user_input, testVars,
                   instruction, summary,
                   searchVars, contextVars>>

create_research_agent ==
    \/ ResearchToolSetup
    \/ BuildAgent("research")
    \/ FactoryExcept("research")

-----------------------------------------------------------------------------
(* coordination/agent.py: create_coordinator_agent *)

\* planning_mcp_path = os.environ.get("PLANNING_MCP_PATH"); raise ValueError
\* when it is falsy; otherwise set up the planning connection, unguarded
CoordinatorPlanning ==
    IF ~NonEmpty(env["PLANNING_MCP_PATH"])
    THEN /\ fpc[Coordinator] = "planning"
         /\ fpc' = [fpc EXCEPT ![Coordinator] = "except"]
         /\ exc' = [kind |-> "ValueError", origin |-> "setup",
                     by |-> Coordinator]
         /\ UNCHANGED <<env, custom_search_tool_class, pathExists, agent_type,
                        pc, env_ok, exit_status, idx, cause, tools, sub_agents,
                        stacks, conns, released, faults, turns, outstanding,
                        reported, session, config,
                   validation,
                   closes, attempts, calls, user_input, testVars,
                   instruction, research, summary,
                   searchVars, contextVars>>
    ELSE Setup(Coordinator, "planning", "planning", FALSE, "loop")

\* the position of the coordinator after the loop body for factory idx
AfterFactory(i) ==
    IF i >= Len(specialized_agent_factories) THEN "agent" ELSE "loop"

\* agent, agent_stack = await factory_func(): the call
CoordinatorCall ==
    /\ fpc[Coordinator] = "loop"
    /\ idx <= Len(specialized_agent_factories)
    /\ LET f == specialized_agent_factories[idx] IN
        /\ fpc[f] = "idle"
        /\ fpc' = [fpc EXCEPT ![f] = FirstStep(f)]
        /\ calls' = [calls EXCEPT ![f] = @ + 1]
    /\ UNCHANGED <<env, custom_search_tool_class, pathExists, agent_type, pc,
                   env_ok, exit_status, exc, idx, cause, tools, sub_agents,
                   stacks, conns, released, faults, turns, outstanding,
                   reported, session, config,
                   validation,
                   closes, attempts, user_input, testVars,
                   instruction, research, summary,
                   searchVars, contextVars>>

\* the factory returned: await exit_stack.enter_async_context(agent_stack);
\* specialized_agents.append(agent)
CoordinatorEnter ==
    /\ fpc[Coordinator] = "loop"
    /\ idx <= Len(specialized_agent_factories)
    /\ LET f == specialized_agent_factories[idx] IN
        /\ fpc[f] = "returned"
        /\ stacks' = [stacks EXCEPT ![Coordinator] = Append(@, StackEntry(f))]
        /\ sub_agents' = Append(sub_agents, f)
    /\ idx' = idx + 1
    /\ fpc' = [fpc EXCEPT ![Coordinator] = AfterFactory(idx)]
    /\ UNCHANGED <<env, custom_search_tool_class, pathExists, agent_type, pc,
                   env_ok, exit_status, exc, cause, tools, conns, released,
                   faults, turns, outstanding, reported, session, config,
                   validation,
                   closes, attempts, calls, user_input, testVars,
                   instruction, research, summary,
                   searchVars, contextVars>>

\* a loop body without its try/except: the factory's exception reaches the
\* coordinator's own except clause
CoordinatorCatch_Abort ==
    /\ fpc[Coordinator] = "loop"
    /\ idx <= Len(specialized_agent_factories)
    /\ fpc[specialized_agent_factories[idx]] = "raised"
    /\ fpc' = [fpc EXCEPT ![Coordinator] = "except"]
    /\ UNCHANGED <<env, custom_search_tool_class, pathExists, agent_type, pc,
                   env_ok, exit_status, exc, idx, cause, tools, sub_agents,
                   stacks, conns, released, faults, turns, outstanding,
                   reported, session, config, validation,
                   closes, attempts, calls, user_input, testVars,
                   instruction, research, summary,
                   searchVars, contextVars>>

\* the factory raised: except Exception: print the warning and continue
CoordinatorCatch ==
    /\ fpc[Coordinator] = "loop"
    /\ idx <= Len(specialized_agent_factories)
    /\ fpc[specialized_agent_factories[idx]] = "raised"
    /\ exc' = NoExc
    /\ idx' = idx + 1
    /\ fpc' = [fpc EXCEPT ![Coordinator] = AfterFactory(idx)]
    /\ UNCHANGED <<env, custom_search_tool_class, pathExists, agent_type, pc,
                   env_ok, exit_status, cause, tools, sub_agents, stacks,
                   conns, released, faults, turns, outstanding, reported,
                   session, config,
                   validation,
                   closes, attempts, calls, user_input, testVars,
                   instruction, research, summary,
                   searchVars, contextVars>>

create_coordinator_agent ==
    \/ CoordinatorPlanning
    \/ CoordinatorCall
    \/ CoordinatorEnter
    \/ CoordinatorCatch
    \/ BuildAgent(Coordinator)
    \/ FactoryExcept(Coordinator)

-----------------------------------------------------------------------------
(* run.py *)

\* a main() that reports the environment and runs the agent all the same
Main_NoExit ==
    /\ pc = "main"
    /\ env_ok' = check_environment_setup(env, pathExists)
    /\ pc' = "run"
    /\ UNCHANGED <<env, custom_search_tool_class, pathExists, agent_type,
                   exit_status, exc, fpc, idx, cause, tools, sub_agents,
                   stacks, conns, released, faults, turns, outstanding,
                   reported, session, config, validation,
                   closes, attempts, calls, user_input, testVars,
                   instruction, research, summary,
                   searchVars, contextVars>>

\* main(): if not check_environment_setup(): sys.exit(1)
Main ==
    /\ pc = "main"
    /\ env_ok' = check_environment_setup(env, pathExists)
    /\ IF env_ok'
       THEN pc' = "run" /\ exit_status' = exit_status
       ELSE pc' = "exited" /\ exit_status' = <<1>>
    /\ UNCHANGED <<env, custom_search_tool_class, pathExists, agent_type, exc,
                   fpc, idx, cause, tools, sub_agents, stacks, conns, released,
                   faults, turns, outstanding, reported, session, config,
                   validation,
                   closes, attempts, calls, user_input, testVars,
                   instruction, research, summary,
                   searchVars, contextVars>>

\* run_selected_agent / run_<agent>_agent: agent, exit_stack = await create_...()
RunAgent ==
    /\ pc = "run"
    /\ fpc' = [fpc EXCEPT ![agent_type] = FirstStep(agent_type)]
    /\ calls' = [calls EXCEPT ![agent_type] = @ + 1]
    /\ pc' = "create"
    /\ UNCHANGED <<env, custom_search_tool_class, pathExists, agent_type,
                   env_ok, exit_status, exc, idx, cause, tools, sub_agents,
                   stacks, conns, released, faults, turns, outstanding,
                   reported, session, config,
                   validation,
                   closes, attempts, user_input, testVars,
                   instruction, research, summary,
                   searchVars, contextVars>>

\* the factory returned: run_agent_interactive(agent, exit_stack, name) starts
StartInteractive ==
    /\ pc = "create"
    /\ fpc[agent_type] = "returned"
    /\ pc' = "input"
    /\ session' = "running"
    /\ UNCHANGED <<env, custom_search_tool_class, pathExists, agent_type,
                   env_ok, exit_status, exc, fpc, idx, cause, tools,
                   sub_agents, stacks, conns, released, faults, turns,
                   outstanding, reported, config,
                   validation,
                   closes, attempts, calls, user_input, testVars,
                   instruction, research, summary,
                   searchVars, contextVars>>

\* the factory raised: control reaches the except clauses of run_<agent>_agent
CreateRaised ==
    /\ pc = "create"
    /\ fpc[agent_type] = "raised"
    /\ pc' = "except"
    /\ UNCHANGED <<env, custom_search_tool_class, pathExists, agent_type,
                   env_ok, exit_status, exc, fpc, idx, cause, tools,
                   sub_agents, stacks, conns, released, faults, turns,
                   outstanding, reported, session, config,
                   validation,
                   closes, attempts, calls, user_input, testVars,
                   instruction, research, summary,
                   searchVars, contextVars>>

\* user_input before a line was read and after the function returned
NoInput == ""

\* lines the user can type: the exit words in several letter cases and a
\* request, one that begins with an exit word
Inputs == {"exit", "quit", "EXIT", "Quit", "exit now"}

\* str.lower()
Lower(u) ==
    CASE u = "EXIT" -> "exit"
      [] u = "Quit" -> "quit"
      [] OTHER      -> u

\* a test of the line as typed, without lower()
IsExit_CaseSensitive(u) == u \in {"exit", "quit"}

\* user_input.lower() in ['exit', 'quit']
IsExit(u) == Lower(u) \in {"exit", "quit"}

\* user_input = input("User: "): a line, or EOFError when input has ended
ReadInput ==
    /\ pc = "input"
    /\ \/ \E u \in Inputs :
            /\ user_input' = u
            /\ IF IsExit(u)
               THEN /\ pc' = "finally"
                    /\ session' = "ended"
                    /\ UNCHANGED <<turns, outstanding, exc>>
               ELSE /\ turns < MaxTurns
                    /\ turns' = turns + 1
                    /\ outstanding' = outstanding + 1
                    /\ pc' = "call"
                    /\ UNCHANGED <<session, exc>>
       \/ /\ exc' = [kind |-> "EOFError", origin |-> "input", by |-> "input"]
          /\ pc' = "finally"
          /\ session' = "ended"
          /\ UNCHANGED <<turns, outstanding, user_input>>
    /\ UNCHANGED <<env, custom_search_tool_class, pathExists, agent_type,
                   env_ok, exit_status, fpc, idx, cause, tools, sub_agents,
                   stacks, conns, released, faults, reported, config,
                   validation,
                   closes, attempts, calls, testVars,
                   instruction, research, summary,
                   searchVars, contextVars>>

\* response = await agent(user_input): the call returns or raises
AgentCall ==
    /\ pc = "call"
    /\ outstanding' = outstanding - 1
    /\ \E ok \in BOOLEAN : pc' = IF ok THEN "print" ELSE "error"
    /\ UNCHANGED <<env, custom_search_tool_class, pathExists, agent_type,
                   env_ok, exit_status, exc, fpc, idx, cause, tools,
                   sub_agents, stacks, conns, released, faults, turns,
                   reported, session, config,
                   validation,
                   closes, attempts, calls, user_input, testVars,
                   instruction, research, summary,
                   searchVars, contextVars>>

\* print(f"\n{agent_name}: ...")
PrintResponse ==
    /\ pc = "print"
    /\ reported' = reported + 1
    /\ pc' = "input"
    /\ UNCHANGED <<env, custom_search_tool_class, pathExists, agent_type,
                   env_ok, exit_status, exc, fpc, idx, cause, tools,
                   sub_agents, stacks, conns, released, faults, turns,
                   outstanding, session, config,
                   validation,
                   closes, attempts, calls, user_input, testVars,
                   instruction, research, summary,
                   searchVars, contextVars>>

\* an except clause that swallows the error without printing it
HandleCallError_Silent ==
    /\ pc = "error"
    /\ pc' = "input"
    /\ UNCHANGED <<env, custom_search_tool_class, pathExists, agent_type,
                   env_ok, exit_status, exc, fpc, idx, cause, tools,
                   sub_agents, stacks, conns, released, faults, turns,
                   outstanding, reported, session, config, validation,
                   closes, attempts, calls, user_input, testVars,
                   instruction, research, summary,
                   searchVars, contextVars>>

\* an except clause that also closes the exit stack
HandleCallError_Closing ==
    /\ pc = "error"
    /\ reported' = reported + 1
    /\ released' = LogExit(released, stacks, agent_type, "session")
    /\ stacks' = AfterExit(stacks, agent_type)
    /\ closes' = AfterClose(closes, stacks, agent_type)
    /\ pc' = "input"
    /\ UNCHANGED <<env, custom_search_tool_class, pathExists, agent_type,
                   env_ok, exit_status, exc, fpc, idx, cause, tools,
                   sub_agents, conns, faults, turns, outstanding, session,
                   config, validation,
                   attempts, calls, user_input, testVars,
                   instruction, research, summary,
                   searchVars, contextVars>>

\* except Exception as e: print(f"\nError processing request: {e}\n")
HandleCallError ==
    /\ pc = "error"
    /\ reported' = reported + 1
    /\ pc' = "input"
    /\ UNCHANGED <<env, custom_search_tool_class, pathExists, agent_type,
                   env_ok, exit_status, exc, fpc, idx, cause, tools,
                   sub_agents, stacks, conns, released, faults, turns,
                   outstanding, session, config,
                   validation,
                   closes, attempts, calls, user_input, testVars,
                   instruction, research, summary,
                   searchVars, contextVars>>

\* finally: await exit_stack.__aexit__(None, None, None); then the function
\* returns (the process ends with status 0) or the exception goes on
Finally ==
    /\ pc = "finally"
    /\ released' = LogExit(released, stacks, agent_type, "shutdown")
    /\ stacks' = AfterExit(stacks, agent_type)
    /\ closes' = AfterClose(closes, stacks, agent_type)
    /\ user_input' = NoInput
    /\ IF exc = NoExc
       THEN pc' = "exited" /\ exit_status' = <<0>>
       ELSE pc' = "except" /\ exit_status' = exit_status
    /\ UNCHANGED <<env, custom_search_tool_class, pathExists, agent_type,
                   env_ok, exc, fpc, idx, cause, tools, sub_agents, conns,
                   faults, turns, outstanding, reported, session, config,
                   validation,
                   attempts, calls, testVars,
                   instruction, research, summary,
                   searchVars, contextVars>>

\* except clauses that print and return without sys.exit(1)
RunExcept_NoExit ==
    /\ pc = "except"
    /\ exc.kind \in {"ValueError", "FileNotFoundError", "Exception", "EOFError"}
    /\ exit_status' = <<0>>
    /\ pc' = "exited"
    /\ UNCHANGED <<env, custom_search_tool_class, pathExists, agent_type,
                   env_ok, exc, fpc, idx, cause, tools, sub_agents, stacks,
                   conns, released, faults, turns, outstanding, reported,
                   session, config, validation,
                   closes, attempts, calls, user_input, testVars,
                   instruction, research, summary,
                   searchVars, contextVars>>

\* except ValueError / FileNotFoundError / Exception: print; sys.exit(1)
RunExcept ==
    /\ pc = "except"
    /\ exc.kind \in {"ValueError", "FileNotFoundError", "Exception", "EOFError"}
    /\ exit_status' = <<1>>
    /\ pc' = "exited"
    /\ UNCHANGED <<env, custom_search_tool_class, pathExists, agent_type,
                   env_ok, exc, fpc, idx, cause, tools, sub_agents, stacks,
                   conns, released, faults, turns, outstanding, reported,
                   session, config,
                   validation,
                   closes, attempts, calls, user_input, testVars,
                   instruction, research, summary,
                   searchVars, contextVars>>

run_agent_interactive ==
    \/ ReadInput
    \/ AgentCall
    \/ PrintResponse
    \/ HandleCallError
    \/ Finally

-----------------------------------------------------------------------------
(* The specification *)

\* the environment variables the programs read
EnvNames ==
    {"GOOGLE_API_KEY", "PLANNING_MCP_PATH", "PLANNING_API_TOKEN",
     "PROGRAMMABLE_SEARCH_ENGINE_ID", "GOOGLE_SEARCH_ENGINE_ID",
     "BRAVE_API_KEY"}

\* the variables run.py and the factories read
RunEnvNames ==
    {"GOOGLE_API_KEY", "PLANNING_MCP_PATH", "PLANNING_API_TOKEN",
     "PROGRAMMABLE_SEARCH_ENGINE_ID"}

NoConfig == [loaded |-> FALSE]
NoValidation == [done |-> FALSE]
NoSummary == [done |-> FALSE]
NoSearch == [tool |-> "none"]
NoRequest == [sent |-> FALSE, num |-> 0, response |-> "none", items |-> 0]
NoResult == [status |-> "none", message |-> "none", results |-> 0]

\* createLLMContext.py: the value EXCLUDE_FILES is bound to at import, a set
\* whose one element is the string ".env,createLLMContext.py"
EXCLUDE_FILES == {".env,createLLMContext.py"}

\* the state every program starts in, the environment apart
Idle ==
    /\ env_ok = FALSE
    /\ exit_status = <<>>
    /\ exc = NoExc
    /\ fpc = [a \in AgentTypes |-> "idle"]
    /\ idx = 1
    /\ cause = [a \in AgentTypes |-> "none"]
    /\ tools = [a \in AgentTypes |-> <<>>]
    /\ sub_agents = <<>>
    /\ stacks = [a \in AgentTypes |-> <<>>]
    /\ conns = <<>>
    /\ released = <<>>
    /\ faults = 0
    /\ turns = 0
    /\ outstanding = 0
    /\ reported = 0
    /\ session = "none"
    /\ config = NoConfig
    /\ validation = NoValidation
    /\ closes = [a \in AgentTypes |-> 0]
    /\ attempts = <<>>
    /\ calls = [a \in AgentTypes |-> 0]
    /\ user_input = NoInput
    /\ todo = <<>>
    /\ results = <<>>
    /\ success = "pending"
    /\ completed = 0
    /\ instruction = [a \in AgentTypes |-> NoInstruction]
    /\ research = [constructed |-> "not called", tool_name |-> "None"]
    /\ summary = NoSummary
    /\ request = NoRequest
    /\ search_result = NoResult
    /\ exclude_files = EXCLUDE_FILES
    /\ walk = <<>>
    /\ entries = <<>>

\* python run.py --agent <agent_type>. The search configuration decides one
\* thing, whether the research agent gets its tool: the coordinator's runs
\* keep one configuration with the tool and one without.
Init ==
    /\ env \in [EnvNames -> EnvVals]
    /\ \A v \in EnvNames \ RunEnvNames : env[v] = "unset"
    /\ custom_search_tool_class \in {"CustomGoogleSearchTool", "None"}
    /\ pathExists \in BOOLEAN
    /\ pathExists => NonEmpty(env["PLANNING_MCP_PATH"])
    /\ agent_type \in AgentTypes
    /\ agent_type = Coordinator =>
          /\ custom_search_tool_class # "None"
          /\ env["PROGRAMMABLE_SEARCH_ENGINE_ID"] # "empty"
    /\ pc = "main"
    /\ args_server = "none"
    /\ search = NoSearch
    /\ files = {}
    /\ args_exclude_files = {}
    /\ Idle

-----------------------------------------------------------------------------
(* config.py and diagnostics.py *)

\* a Config that enables the planning server on the path alone
ConfigInit_PlanningByPath(e) ==
    [loaded                  |-> TRUE,
     google_api_key          |-> e["GOOGLE_API_KEY"],
     google_search_engine_id |-> e["GOOGLE_SEARCH_ENGINE_ID"],
     brave_api_key           |-> e["BRAVE_API_KEY"],
     planning_api_token      |-> e["PLANNING_API_TOKEN"],
     planning_mcp_path       |-> e["PLANNING_MCP_PATH"],
     enabled |-> [planning   |-> NonEmpty(e["PLANNING_MCP_PATH"]),
                  filesystem |-> TRUE,
                  context7   |-> TRUE,
                  playwright |-> TRUE,
                  websearch  |-> NonEmpty(e["BRAVE_API_KEY"])]]

\* Config.__init__: the fields read from the environment and the enabled flag
\* of each MCP server
ConfigInit(e) ==
    [loaded                  |-> TRUE,
     google_api_key          |-> e["GOOGLE_API_KEY"],
     google_search_engine_id |-> e["GOOGLE_SEARCH_ENGINE_ID"],
     brave_api_key           |-> e["BRAVE_API_KEY"],
     planning_api_token      |-> e["PLANNING_API_TOKEN"],
     planning_mcp_path       |-> e["PLANNING_MCP_PATH"],
     enabled |-> [planning   |-> NonEmpty(e["PLANNING_MCP_PATH"])
                                 /\ NonEmpty(e["PLANNING_API_TOKEN"]),
                  filesystem |-> TRUE,
                  context7   |-> TRUE,
                  playwright |-> TRUE,
                  websearch  |-> NonEmpty(e["BRAVE_API_KEY"])]]

\* a validate() that counts the missing planning token as an issue
validate_TokenIssue(cfg, pe) ==
    LET issues ==
            (IF ~NonEmpty(cfg.google_api_key) THEN <<"GOOGLE_API_KEY">> ELSE <<>>)
            \o (IF ~NonEmpty(cfg.planning_api_token)
                THEN <<"PLANNING_API_TOKEN">> ELSE <<>>)
            \o (IF NonEmpty(cfg.planning_mcp_path) /\ ~pe
                THEN <<"PLANNING_MCP_PATH">> ELSE <<>>)
        warnings ==
            (IF ~NonEmpty(cfg.google_search_engine_id)
             THEN <<"GOOGLE_SEARCH_ENGINE_ID">> ELSE <<>>)
            \o (IF ~NonEmpty(cfg.brave_api_key) THEN <<"BRAVE_API_KEY">> ELSE <<>>)
    IN  [done |-> TRUE, valid |-> Len(issues) = 0, issues |-> issues,
         warnings |-> warnings]

\* Config.validate(): an issue or a warning is recorded by the name of the
\* variable its message begins with
validate(cfg, pe) ==
    LET issues ==
            (IF ~NonEmpty(cfg.google_api_key) THEN <<"GOOGLE_API_KEY">> ELSE <<>>)
            \o (IF NonEmpty(cfg.planning_mcp_path) /\ ~pe
                THEN <<"PLANNING_MCP_PATH">> ELSE <<>>)
        warnings ==
            (IF ~NonEmpty(cfg.planning_api_token)
             THEN <<"PLANNING_API_TOKEN">> ELSE <<>>)
            \o (IF ~NonEmpty(cfg.google_search_engine_id)
                THEN <<"GOOGLE_SEARCH_ENGINE_ID">> ELSE <<>>)
            \o (IF ~NonEmpty(cfg.brave_api_key) THEN <<"BRAVE_API_KEY">> ELSE <<>>)
    IN  [done |-> TRUE, valid |-> Len(issues) = 0, issues |-> issues,
         warnings |-> warnings]

\* from config import config: the singleton is built at import
DiagImport ==
    /\ pc = "diag_import"
    /\ config' = ConfigInit(env)
    /\ pc' = "diag_main"
    /\ UNCHANGED <<env, custom_search_tool_class, pathExists, agent_type,
                   env_ok, exit_status, exc, fpc, idx, cause, tools,
                   sub_agents, stacks, conns, released, faults, turns,
                   outstanding, reported, session, validation,
                   closes, attempts, calls, user_input, testVars,
                   instruction, research, summary,
                   searchVars, contextVars>>

\* diagnostics.main(): validation = config.validate()
DiagValidate ==
    /\ pc = "diag_main"
    /\ validation' = validate(config, pathExists)
    /\ pc' = "diag_summary"
    /\ UNCHANGED <<env, custom_search_tool_class, pathExists, agent_type,
                   env_ok, exit_status, exc, fpc, idx, cause, tools,
                   sub_agents, stacks, conns, released, faults, turns,
                   outstanding, reported, session, config,
                   closes, attempts, calls, user_input, testVars,
                   instruction, research, summary,
                   searchVars, contextVars>>

\* the keys of self.mcp_servers, in the order of the dictionary
mcp_servers == <<"planning", "filesystem", "context7", "playwright", "websearch">>

\* Config.get_enabled_mcp_servers(): the servers whose enabled flag is true
get_enabled_mcp_servers(cfg) ==
    SelectSeq(mcp_servers, LAMBDA n : cfg.enabled[n])

\* print(config.summary()): the summary lists get_enabled_mcp_servers()
DiagSummary ==
    /\ pc = "diag_summary"
    /\ summary' = [done |-> TRUE, servers |-> get_enabled_mcp_servers(config)]
    /\ pc' = "diag_exit"
    /\ UNCHANGED <<env, custom_search_tool_class, pathExists, agent_type,
                   env_ok, exit_status, exc, fpc, idx, cause, tools,
                   sub_agents, stacks, conns, released, faults, turns,
                   outstanding, reported, session, config, validation, closes,
                   attempts, calls, user_input, testVars, instruction,
                   research,
                   searchVars, contextVars>>

\* valid = main(); sys.exit(0 if valid else 1)
DiagExit ==
    /\ pc = "diag_exit"
    /\ exit_status' = IF validation.valid THEN <<0>> ELSE <<1>>
    /\ pc' = "exited"
    /\ UNCHANGED <<env, custom_search_tool_class, pathExists, agent_type,
                   env_ok, exc, fpc, idx, cause, tools, sub_agents, stacks,
                   conns, released, faults, turns, outstanding, reported,
                   session, config, validation,
                   closes, attempts, calls, user_input, testVars,
                   instruction, research, summary,
                   searchVars, contextVars>>

\* the variables config.py reads
ConfigEnvNames ==
    {"GOOGLE_API_KEY", "PLANNING_MCP_PATH", "PLANNING_API_TOKEN",
     "GOOGLE_SEARCH_ENGINE_ID", "BRAVE_API_KEY"}

\* python diagnostics.py
InitDiagnostics ==
    /\ env \in [EnvNames -> EnvVals]
    /\ \A v \in EnvNames \ ConfigEnvNames : env[v] = "unset"
    /\ custom_search_tool_class = "None"
    /\ pathExists \in BOOLEAN
    /\ pathExists => NonEmpty(env["PLANNING_MCP_PATH"])
    /\ agent_type = Coordinator
    /\ pc = "diag_import"
    /\ args_server = "none"
    /\ search = NoSearch
    /\ files = {}
    /\ args_exclude_files = {}
    /\ Idle

NextDiagnostics ==
    \/ DiagImport
    \/ DiagValidate
    \/ DiagSummary
    \/ DiagExit

SpecDiagnostics == InitDiagnostics /\ [][NextDiagnostics]_vars

-----------------------------------------------------------------------------
(* test_mcp_tools.py *)

\* the owner recorded for the connections and setups of test_mcp_connection
McpTest == "test_mcp_connection"

\* servers = ['planning', 'context7', 'filesystem', 'playwright']
servers == <<"planning", "context7", "filesystem", "playwright">>

\* the choices of --server
ServerChoices == Servers \cup {"all"}

\* main(): the tests to run, one for args.server or one for each server
McpMain ==
    /\ pc = "mt_main"
    /\ todo' = IF args_server = "all" THEN servers ELSE <<args_server>>
    /\ pc' = "mt_test"
    /\ UNCHANGED <<env, custom_search_tool_class, pathExists, agent_type,
                   env_ok, exit_status, exc, fpc, idx, cause, tools,
                   sub_agents, stacks, conns, released, faults, turns,
                   outstanding, reported, session, config, validation, closes,
                   attempts, calls, user_input, args_server, results, success,
                   completed,
                   instruction, research, summary,
                   searchVars, contextVars>>

\* test_mcp_connection(server_type) returns: results[server] = success, and
\* the loop of main() goes on with the next server
McpReturn(value, message) ==
    /\ results' = Append(results, [server |-> Head(todo), success |-> value,
                                   printed |-> message])
    /\ todo' = Tail(todo)
    /\ pc' = "mt_test"

\* the message of the except clause that catches an exception of kind k
ExceptMessage(k) ==
    CASE k = "ValueError"        -> "Configuration error"
      [] k = "FileNotFoundError" -> "Path error"
      [] OTHER                   -> "Unexpected error"

\* test_mcp_connection: dispatch on server_type and
\* tools, exit_stack = await setup_<server_type>_mcp_tools()
McpSetup ==
    /\ pc = "mt_test"
    /\ todo # <<>>
    /\ IF Head(todo) \notin Servers
       THEN /\ McpReturn(FALSE, "Unknown server type")
            /\ UNCHANGED <<attempts, conns, faults, exc>>
       ELSE \E r \in FromServerResults :
            /\ FaultDrawn(Head(todo), r) => faults < MaxSetupFaults
            /\ faults' = IF FaultDrawn(Head(todo), r) THEN faults + 1 ELSE faults
            /\ LET res == setup_mcp_tools(Head(todo), env, pathExists, r) IN
                /\ attempts' = Append(attempts, [owner |-> McpTest,
                                                 server |-> Head(todo),
                                                 called |-> res.called])
                /\ conns' = IF res.spawned
                            THEN Append(conns, [server |-> Head(todo),
                                                owner |-> McpTest,
                                                entered |-> res.raised = "none"])
                            ELSE conns
                /\ IF res.raised = "none"
                   THEN pc' = "mt_with" /\ exc' = exc
                   ELSE /\ pc' = "mt_except"
                        /\ exc' = [kind |-> res.raised, origin |-> "setup",
                                   by |-> McpTest]
            /\ UNCHANGED <<todo, results>>
    /\ UNCHANGED <<env, custom_search_tool_class, pathExists, agent_type,
                   env_ok, exit_status, fpc, idx, cause, tools, sub_agents,
                   stacks, released, turns, outstanding, reported, session,
                   config, validation, closes, calls, user_input, args_server,
                   success, completed,
                   instruction, research, summary,
                   searchVars, contextVars>>

\* what the body of the with statement does: the construction of the Agent
\* raises, the list_plans call raises, the tool list has no list_plans, or
\* every step completes
McpBodyOutcomes(server) ==
    {"agent_raises", "completes"}
        \cup (IF server = "planning" THEN {"list_plans_raises", "no_list_plans"}
              ELSE {})

\* async with exit_stack: the body runs and the connection is released when
\* the block is left, by return or by exception
McpWith ==
    /\ pc = "mt_with"
    /\ released' = Append(released, [conn |-> Len(conns), at |-> "test"])
    /\ \E o \in McpBodyOutcomes(Head(todo)) :
        CASE o = "agent_raises" ->
                /\ \E k \in AgentOutcomes \ {"none"} :
                      exc' = [kind |-> k, origin |-> "agent", by |-> McpTest]
                /\ pc' = "mt_except"
                /\ UNCHANGED <<todo, results>>
          [] o = "list_plans_raises" ->
                /\ McpReturn(FALSE, "list_plans operation failed")
                /\ exc' = exc
          [] OTHER ->
                /\ McpReturn(TRUE, "test passed")
                /\ exc' = exc
    /\ UNCHANGED <<env, custom_search_tool_class, pathExists, agent_type,
                   env_ok, exit_status, fpc, idx, cause, tools, sub_agents,
                   stacks, conns, faults, turns, outstanding, reported,
                   session, config, validation, closes, attempts, calls,
                   user_input, args_server, success, completed,
                   instruction, research, summary,
                   searchVars, contextVars>>

\* except ValueError / FileNotFoundError / Exception: print; return False
McpExcept ==
    /\ pc = "mt_except"
    /\ McpReturn(FALSE, ExceptMessage(exc.kind))
    /\ exc' = NoExc
    /\ UNCHANGED <<env, custom_search_tool_class, pathExists, agent_type,
                   env_ok, exit_status, fpc, idx, cause, tools, sub_agents,
                   stacks, conns, released, faults, turns, outstanding,
                   reported, session, config, validation, closes, attempts,
                   calls, user_input, args_server, success, completed,
                   instruction, research, summary,
                   searchVars, contextVars>>

\* sys.exit(0 if success else 1), sys.exit(0 if all_successful else 1)
McpExit ==
    /\ pc = "mt_test"
    /\ todo = <<>>
    /\ exit_status' = IF \A i \in 1..Len(results) : results[i].success
                      THEN <<0>> ELSE <<1>>
    /\ pc' = "exited"
    /\ UNCHANGED <<env, custom_search_tool_class, pathExists, agent_type,
                   env_ok, exc, fpc, idx, cause, tools, sub_agents, stacks,
                   conns, released, faults, turns, outstanding, reported,
                   session, config, validation, closes, attempts, calls,
                   user_input, testVars,
                   instruction, research, summary,
                   searchVars, contextVars>>

\* the variables test_mcp_tools.py and the setup functions decide on
McpEnvNames == {"PLANNING_MCP_PATH", "PLANNING_API_TOKEN"}

\* python test_mcp_tools.py --server <args_server>
InitMcpTest ==
    /\ env \in [EnvNames -> EnvVals]
    /\ \A v \in EnvNames \ McpEnvNames : env[v] = "unset"
    /\ custom_search_tool_class = "None"
    /\ pathExists \in BOOLEAN
    /\ pathExists => NonEmpty(env["PLANNING_MCP_PATH"])
    /\ agent_type = Coordinator
    /\ pc = "mt_main"
    /\ args_server \in ServerChoices
    /\ search = NoSearch
    /\ files = {}
    /\ args_exclude_files = {}
    /\ Idle

NextMcpTest ==
    \/ McpMain
    \/ McpSetup
    \/ McpWith
    \/ McpExcept
    \/ McpExit

SpecMcpTest == InitMcpTest /\ [][NextMcpTest]_vars

-----------------------------------------------------------------------------
(* tests/test_planning.py *)

\* the planning operations of the try block, in order
operations ==
    <<"list_plans", "create_plan", "create_node (phase)", "create_node (task)",
      "update_node_status", "get_plan_nodes", "add_comment", "search_plan">>

\* the operations completed when the plan ID is extracted from the response
ExtractionPoint == CHOOSE i \in 1..Len(operations) : operations[i] = "create_plan"

\* agent, exit_stack = await create_coordinator_agent(), before the try block
PlanTestStart ==
    /\ pc = "tp_main"
    /\ fpc' = [fpc EXCEPT ![Coordinator] = FirstStep(Coordinator)]
    /\ calls' = [calls EXCEPT ![Coordinator] = @ + 1]
    /\ pc' = "tp_create"
    /\ UNCHANGED <<env, custom_search_tool_class, pathExists, agent_type,
                   env_ok, exit_status, exc, idx, cause, tools, sub_agents,
                   stacks, conns, released, faults, turns, outstanding,
                   reported, session, config, validation, closes, attempts,
                   user_input, testVars,
                   instruction, research, summary,
                   searchVars, contextVars>>

\* create_coordinator_agent raised outside the try block: the exception
\* leaves asyncio.run and main() uncaught, the interpreter exits with 1
PlanTestCreateRaised ==
    /\ pc = "tp_create"
    /\ fpc[Coordinator] = "raised"
    /\ exit_status' = <<1>>
    /\ pc' = "exited"
    /\ UNCHANGED <<env, custom_search_tool_class, pathExists, agent_type,
                   env_ok, exc, fpc, idx, cause, tools, sub_agents, stacks,
                   conns, released, faults, turns, outstanding, reported,
                   session, config, validation, closes, attempts, calls,
                   user_input, testVars,
                   instruction, research, summary,
                   searchVars, contextVars>>

\* a try block whose early return hands back True
PlanTestOperations_EarlyTrue ==
    /\ pc = "tp_create"
    /\ fpc[Coordinator] = "returned"
    /\ \E n \in 0..Len(operations) : \E extracted \in BOOLEAN :
        /\ completed' = n
        /\ success' = IF n = Len(operations) THEN "True"
                      ELSE IF n = ExtractionPoint /\ ~extracted THEN "True"
                      ELSE "False"
    /\ pc' = "tp_finally"
    /\ UNCHANGED <<env, custom_search_tool_class, pathExists, agent_type,
                   env_ok, exit_status, exc, fpc, idx, cause, tools,
                   sub_agents, stacks, conns, released, faults, turns,
                   outstanding, reported, session, config, validation, closes,
                   attempts, calls, user_input, args_server, todo, results,
                   instruction, research, summary,
                   searchVars, contextVars>>

\* the try block: n operations complete; then every operation is done and
\* True is returned, or the plan ID could not be extracted and the function
\* returns None, or the next operation raises and the except clause returns
\* False
PlanTestOperations ==
    /\ pc = "tp_create"
    /\ fpc[Coordinator] = "returned"
    /\ \E n \in 0..Len(operations) : \E extracted \in BOOLEAN :
        /\ completed' = n
        /\ success' = IF n = Len(operations) THEN "True"
                      ELSE IF n = ExtractionPoint /\ ~extracted THEN "None"
                      ELSE "False"
    /\ pc' = "tp_finally"
    /\ UNCHANGED <<env, custom_search_tool_class, pathExists, agent_type,
                   env_ok, exit_status, exc, fpc, idx, cause, tools,
                   sub_agents, stacks, conns, released, faults, turns,
                   outstanding, reported, session, config, validation, closes,
                   attempts, calls, user_input, args_server, todo, results,
                   instruction, research, summary,
                   searchVars, contextVars>>

\* finally: await exit_stack.__aexit__(None, None, None)
PlanTestFinally ==
    /\ pc = "tp_finally"
    /\ released' = LogExit(released, stacks, Coordinator, "shutdown")
    /\ stacks' = AfterExit(stacks, Coordinator)
    /\ closes' = AfterClose(closes, stacks, Coordinator)
    /\ pc' = "tp_exit"
    /\ UNCHANGED <<env, custom_search_tool_class, pathExists, agent_type,
                   env_ok, exit_status, exc, fpc, idx, cause, tools,
                   sub_agents, conns, faults, turns, outstanding, reported,
                   session, config, validation, attempts, calls, user_input,
                   testVars,
                   instruction, research, summary,
                   searchVars, contextVars>>

\* success = asyncio.run(test_planning_operations());
\* sys.exit(0 if success else 1): None and False are falsy
PlanTestExit ==
    /\ pc = "tp_exit"
    /\ exit_status' = IF success = "True" THEN <<0>> ELSE <<1>>
    /\ pc' = "exited"
    /\ UNCHANGED <<env, custom_search_tool_class, pathExists, agent_type,
                   env_ok, exc, fpc, idx, cause, tools, sub_agents, stacks,
                   conns, released, faults, turns, outstanding, reported,
                   session, config, validation, closes, attempts, calls,
                   user_input, testVars,
                   instruction, research, summary,
                   searchVars, contextVars>>

\* the variables the coordinator and its factories decide on
PlanTestEnvNames ==
    {"PLANNING_MCP_PATH", "PLANNING_API_TOKEN", "PROGRAMMABLE_SEARCH_ENGINE_ID"}

\* python tests/test_planning.py: no environment check precedes the
\* coordinator; the search configuration is kept to one run with the research
\* tool and one without
InitPlanningTest ==
    /\ env \in [EnvNames -> EnvVals]
    /\ env["GOOGLE_API_KEY"] = "set"
    /\ \A v \in EnvNames \ (PlanTestEnvNames \cup {"GOOGLE_API_KEY"}) :
          env[v] = "unset"
    /\ env["PROGRAMMABLE_SEARCH_ENGINE_ID"] # "empty"
    /\ custom_search_tool_class = "CustomGoogleSearchTool"
    /\ pathExists \in BOOLEAN
    /\ pathExists => NonEmpty(env["PLANNING_MCP_PATH"])
    /\ agent_type = Coordinator
    /\ pc = "tp_main"
    /\ args_server = "none"
    /\ search = NoSearch
    /\ files = {}
    /\ args_exclude_files = {}
    /\ Idle

NextPlanningTest ==
    \/ PlanTestStart
    \/ create_coordinator_agent
    \/ create_backend_dev_agent
    \/ create_frontend_dev_agent
    \/ create_designer_agent
    \/ create_research_agent
    \/ create_tester_agent
    \/ create_plan_optimizer_agent
    \/ PlanTestCreateRaised
    \/ PlanTestOperations
    \/ PlanTestFinally
    \/ PlanTestExit

SpecPlanningTest == InitPlanningTest /\ [][NextPlanningTest]_vars

-----------------------------------------------------------------------------
(* The search tools: agents/research/google_search_custom_tool.py and
   tools/google_search_tool.py *)

Min(a, b) == IF a <= b THEN a ELSE b
Max(a, b) == IF a >= b THEN a ELSE b

\* the num passed to cse().list():
\* research tool: num = max(1, min(num_results, 10));
\* tools/google_search_tool.py: num_results = min(num_results, 10)
clamp(tool, num_results) ==
    IF tool = "research" THEN Max(1, Min(num_results, 10))
    ELSE Min(num_results, 10)

\* the dictionary returned, by its status, the kind of its message and the
\* length of its results
Result(status, message, n) ==
    [status |-> status, message |-> message, results |-> n]

\* _arun / run up to the request: the research tool returns an error when
\* self.service is None; in tools/google_search_tool.py build() is called
\* inside the try block and its exception is turned into an error; otherwise
\* the count is clamped and the request is made
SearchCall ==
    /\ pc = "search_call"
    /\ IF ~search.service
       THEN /\ search_result' =
                  Result("error",
                         IF search.tool = "research"
                         THEN "Google API service not initialized."
                         ELSE "str(e)", 0)
            /\ request' = request
            /\ pc' = "search_done"
       ELSE /\ request' = [request EXCEPT
                              !.sent = TRUE,
                              !.num = clamp(search.tool, search.num_results)]
            /\ search_result' = search_result
            /\ pc' = "search_api"
    /\ UNCHANGED <<env, custom_search_tool_class, pathExists, agent_type,
                   env_ok, exit_status, exc, fpc, idx, cause, tools,
                   sub_agents, stacks, conns, released, faults, turns,
                   outstanding, reported, session, config, validation, closes,
                   attempts, calls, user_input, testVars, instruction,
                   research, summary, search, contextVars>>

\* a research tool whose only except clause is the one for HttpError
SearchExecute_OnlyHttpError ==
    /\ pc = "search_api"
    /\ \/ \E k \in {"HttpError", "Exception"} :
            /\ request' = [request EXCEPT !.response = k]
            /\ IF search.tool = "research" /\ k = "Exception"
               THEN /\ search_result' = search_result
                    /\ pc' = "search_raised"
               ELSE /\ search_result' =
                          Result("error",
                                 IF search.tool = "research" THEN "API error"
                                 ELSE "str(e)", 0)
                    /\ pc' = "search_done"
       \/ \E n \in 0..MaxItems :
            /\ request' = [request EXCEPT !.response = "items", !.items = n]
            /\ search_result' =
                  Result("success",
                         IF search.tool # "research" THEN "none"
                         ELSE IF n = 0 THEN "No results found"
                         ELSE "Successfully found", n)
            /\ pc' = "search_done"
    /\ UNCHANGED <<env, custom_search_tool_class, pathExists, agent_type,
                   env_ok, exit_status, exc, fpc, idx, cause, tools,
                   sub_agents, stacks, conns, released, faults, turns,
                   outstanding, reported, session, config, validation, closes,
                   attempts, calls, user_input, testVars, instruction,
                   research, summary, search, contextVars>>

\* the request executes: it raises HttpError or another exception, which
\* the except clauses turn into an error dictionary, or it returns n items
\* and each is formatted into one result
SearchExecute ==
    /\ pc = "search_api"
    /\ \/ \E k \in {"HttpError", "Exception"} :
            /\ request' = [request EXCEPT !.response = k]
            /\ search_result' =
                  Result("error",
                         IF search.tool # "research" THEN "str(e)"
                         ELSE IF k = "HttpError" THEN "API error"
                         ELSE "Unexpected error during search", 0)
       \/ \E n \in 0..MaxItems :
            /\ request' = [request EXCEPT !.response = "items", !.items = n]
            /\ search_result' =
                  Result("success",
                         IF search.tool # "research" THEN "none"
                         ELSE IF n = 0 THEN "No results found"
                         ELSE "Successfully found", n)
    /\ pc' = "search_done"
    /\ UNCHANGED <<env, custom_search_tool_class, pathExists, agent_type,
                   env_ok, exit_status, exc, fpc, idx, cause, tools,
                   sub_agents, stacks, conns, released, faults, turns,
                   outstanding, reported, session, config, validation, closes,
                   attempts, calls, user_input, testVars, instruction,
                   research, summary, search, contextVars>>

\* a call of one of the two tools: the research tool with its service built
\* or not, the other tool with build() succeeding or not, and any num_results
InitSearch ==
    /\ env = [v \in EnvNames |-> "set"]
    /\ custom_search_tool_class = "CustomGoogleSearchTool"
    /\ pathExists = TRUE
    /\ agent_type = "research"
    /\ pc = "search_call"
    /\ args_server = "none"
    /\ search \in [tool : {"research", "tools"},
                   service : BOOLEAN,
                   num_results : (0 - MaxNumResults)..MaxNumResults]
    /\ files = {}
    /\ args_exclude_files = {}
    /\ Idle

NextSearch ==
    \/ SearchCall
    \/ SearchExecute

SpecSearch == InitSearch /\ [][NextSearch]_vars

-----------------------------------------------------------------------------
(* createLLMContext.py *)

EXCLUDE_DIRS == {".venv", "outputs", "logs"}

OUTPUT_MD == "project_context.md"

\* the files a project tree is drawn from, each a path below the root
CandidatePaths ==
    {<<".env">>, <<"createLLMContext.py">>, <<"a.py">>,
     <<"src", "a.py">>, <<"src", ".env">>, <<"src", "logs", "x.log">>,
     <<".venv", "a.py">>, <<"outputs", "notes.txt">>}

\* what --exclude-files can name
ExcludeArgs == {{}, {"a.py"}, {"notes.txt", "x.log"}}

RECURSIVE SetToSeq(_)
\* the elements of S in the order a directory listing hands them out
SetToSeq(S) ==
    IF S = {} THEN <<>>
    ELSE LET x == CHOOSE y \in S : TRUE IN <<x>> \o SetToSeq(S \ {x})

\* the paths of fs that lie below directory d
Below(fs, d) == {f \in fs : Len(f) > Len(d) /\ SubSeq(f, 1, Len(d)) = d}

\* filenames and dirnames of directory d, as os.walk yields them
filenames(fs, d) == {f[Len(f)] : f \in {g \in Below(fs, d) : Len(g) = Len(d) + 1}}
dirnames(fs, d) == {f[Len(d) + 1] : f \in {g \in Below(fs, d) : Len(g) > Len(d) + 1}}

\* __main__: EXCLUDE_FILES.update(args.exclude_files), then
\* generate_markdown_context() opens OUTPUT_MD in the root and starts os.walk
ContextMain ==
    /\ pc = "ctx_main"
    /\ exclude_files' = exclude_files \cup args_exclude_files
    /\ files' = files \cup {<<OUTPUT_MD>>}
    /\ walk' = << <<>> >>
    /\ pc' = "ctx_walk"
    /\ UNCHANGED <<env, custom_search_tool_class, pathExists, agent_type,
                   env_ok, exit_status, exc, fpc, idx, cause, tools,
                   sub_agents, stacks, conns, released, faults, turns,
                   outstanding, reported, session, config, validation, closes,
                   attempts, calls, user_input, testVars, instruction,
                   research, summary, searchVars, args_exclude_files,
                   entries>>

\* one iteration of for dirpath, dirnames, filenames in os.walk(root_dir):
\* the excluded directories are removed from dirnames, an entry is written
\* for each filename not in EXCLUDE_FILES, and the walk goes on top-down into
\* the directories kept
ContextWalk ==
    /\ pc = "ctx_walk"
    /\ walk # <<>>
    /\ LET dirpath == Head(walk)
           kept    == SetToSeq(dirnames(files, dirpath) \ EXCLUDE_DIRS)
           names   == SetToSeq(filenames(files, dirpath) \ exclude_files)
       IN  /\ entries' = entries
                           \o [i \in 1..Len(names) |-> dirpath \o <<names[i]>>]
           /\ walk' = [i \in 1..Len(kept) |-> dirpath \o <<kept[i]>>]
                        \o Tail(walk)
    /\ UNCHANGED <<env, custom_search_tool_class, pathExists, agent_type, pc,
                   env_ok, exit_status, exc, fpc, idx, cause, tools,
                   sub_agents, stacks, conns, released, faults, turns,
                   outstanding, reported, session, config, validation, closes,
                   attempts, calls, user_input, testVars, instruction,
                   research, summary, searchVars, files, args_exclude_files,
                   exclude_files>>

\* os.walk is exhausted: the file is closed and the script ends
ContextDone ==
    /\ pc = "ctx_walk"
    /\ walk = <<>>
    /\ exit_status' = <<0>>
    /\ pc' = "exited"
    /\ UNCHANGED <<env, custom_search_tool_class, pathExists, agent_type,
                   env_ok, exc, fpc, idx, cause, tools, sub_agents, stacks,
                   conns, released, faults, turns, outstanding, reported,
                   session, config, validation, closes, attempts, calls,
                   user_input, testVars, instruction, research, summary,
                   searchVars, contextVars>>

\* python createLLMContext.py --exclude-files <args_exclude_files>, run in
\* the root of a project tree
InitContext ==
    /\ env = [v \in EnvNames |-> "unset"]
    /\ custom_search_tool_class = "None"
    /\ pathExists = FALSE
    /\ agent_type = Coordinator
    /\ pc = "ctx_main"
    /\ args_server = "none"
    /\ search = NoSearch
    /\ files \in SUBSET CandidatePaths
    /\ args_exclude_files \in ExcludeArgs
    /\ Idle

NextContext ==
    \/ ContextMain
    \/ ContextWalk
    \/ ContextDone

SpecContext == InitContext /\ [][NextContext]_vars

-----------------------------------------------------------------------------
Next ==
    \/ Main
    \/ RunAgent
    \/ create_coordinator_agent
    \/ create_backend_dev_agent
    \/ create_frontend_dev_agent
    \/ create_designer_agent
    \/ create_research_agent
    \/ create_tester_agent
    \/ create_plan_optimizer_agent
    \/ StartInteractive
    \/ CreateRaised
    \/ run_agent_interactive
    \/ RunExcept

Spec == Init /\ [][Next]_vars

-----------------------------------------------------------------------------
(* Properties *)

Range(q) == {q[i] : i \in 1..Len(q)}

Conns == 1..Len(conns)

\* run_agent_interactive has ended: its finally clause has run
SessionOver == session = "ended" /\ pc \in {"except", "exited"}

\* the connections released by run_agent_interactive's finally, in order
ShutdownOrder ==
    LET log == SelectSeq(released, LAMBDA r : r.at = "shutdown")
    IN  [i \in 1..Len(log) |-> log[i].conn]

RECURSIVE Descending(_)
\* the numbers of S, largest first
Descending(S) ==
    IF S = {} THEN <<>>
    ELSE LET m == CHOOSE x \in S : \A y \in S : y <= x
         IN  <<m>> \o Descending(S \ {m})

\* the connections the running agent holds: entered on the stack of the
\* selected agent or of one of the coordinator's sub-agents
Held ==
    {c \in Conns : /\ conns[c].entered
                   /\ conns[c].owner \in {agent_type} \cup Range(sub_agents)}

\* the servers whose setup succeeded in factory a, in order of setup
SucceededSetups(a) ==
    LET mine == SelectSeq(conns, LAMBDA c : c.owner = a /\ c.entered)
    IN  [i \in 1..Len(mine) |-> mine[i].server]

\* C1: once the coordinator was created and run_agent_interactive has ended,
\* every connection spawned during startup has been released exactly once.
C1_EveryConnectionReleasedOnce ==
    (agent_type = Coordinator /\ SessionOver) =>
        \A c \in Conns : Count(c, released) = 1

\* C2: at shutdown the held connections are released in the reverse of the
\* order of their acquisition (connections are numbered as acquired): the last
\* created agent's first, the coordinator's planning connection last.
C2_ReleasedInReverseOrder ==
    SessionOver =>
        /\ ShutdownOrder = Descending(Held)
        /\ agent_type = Coordinator =>
              /\ ShutdownOrder # <<>>
              /\ conns[ShutdownOrder[Len(ShutdownOrder)]].owner = Coordinator
              /\ \A i \in 1..Len(ShutdownOrder) :
                    \A j \in 1..Len(sub_agents) :
                       conns[ShutdownOrder[i]].owner = sub_agents[j] =>
                          \A k \in i..Len(ShutdownOrder) :
                             \A l \in 1..Len(sub_agents) :
                                conns[ShutdownOrder[k]].owner = sub_agents[l]
                                    => l <= j

C2_Witness ==
    /\ agent_type = Coordinator
    /\ pc = "exited"
    /\ Len(ShutdownOrder) >= 4
    /\ \E i \in 1..Len(ShutdownOrder) - 1 :
          /\ conns[ShutdownOrder[i]].owner = "tester"
          /\ conns[ShutdownOrder[i + 1]].owner = "tester"
    /\ \E c \in Conns : conns[c].owner = "backend" /\ c \in Range(ShutdownOrder)

\* C3: in every specialized factory a raising connection setup never makes
\* the factory raise, and the agent returned has exactly the tools of the
\* setups that succeeded.
C3_SetupFailureNeverRaises ==
    \A a \in Specialized :
        /\ cause[a] # "setup"
        /\ (fpc[a] = "returned" /\ a # "research") => tools[a] = SucceededSetups(a)

\* C4: once the planning connection is established no failure of a
\* specialized factory aborts create_coordinator_agent (an exception that
\* reaches its except clause is its own), and the coordinator is built with
\* exactly the agents whose factory returned, in factory order.
C4_FactoryFailuresTolerated ==
    agent_type = Coordinator =>
        /\ fpc[Coordinator] \in {"except", "raised"} => exc.by = Coordinator
        /\ fpc[Coordinator] \in {"agent", "returned"} =>
              /\ \A f \in Specialized : fpc[f] \in {"returned", "raised"}
              /\ sub_agents = SelectSeq(specialized_agent_factories,
                                        LAMBDA f : fpc[f] = "returned")

C4_Witness ==
    /\ fpc[Coordinator] = "returned"
    /\ sub_agents = <<"backend", "research", "optimizer">>
    /\ cause["designer"] = "setup"
    /\ cause["frontend"] = "agent"

\* C5: Config.validate() reports every required variable that is unset or
\* empty: valid is False and issues names the variable.
C5_ValidateFlagsEveryMissing ==
    validation.done =>
        \A i \in 1..Len(required_vars) :
            ~NonEmpty(env[required_vars[i]]) =>
                /\ ~validation.valid
                /\ required_vars[i] \in Range(validation.issues)

\* C6: check_environment_setup() returns True exactly when the three
\* required variables are non-empty and the planning path exists.
C6_CheckEnvironmentExact ==
    pc # "main" =>
        (env_ok <=> /\ NonEmpty(env["GOOGLE_API_KEY"])
                    /\ NonEmpty(env["PLANNING_MCP_PATH"])
                    /\ NonEmpty(env["PLANNING_API_TOKEN"])
                    /\ pathExists)

C6_Witness ==
    /\ pc # "main"
    /\ \A i \in 1..Len(required_vars) : NonEmpty(env[required_vars[i]])
    /\ ~pathExists
    /\ ~env_ok

\* C7: when check_environment_setup() returned False the process has exited
\* with status 1, no factory was called and no connection was spawned.
C7_BadEnvironmentExitsFirst ==
    (pc # "main" /\ ~env_ok) =>
        /\ pc = "exited"
        /\ exit_status = <<1>>
        /\ conns = <<>>
        /\ \A a \in AgentTypes : fpc[a] = "idle"

C7_Witness ==
    /\ pc = "exited"
    /\ ~env_ok
    /\ agent_type = "designer"
    /\ env["PLANNING_API_TOKEN"] = "empty"

\* C8: when the selected factory raised, an except clause of the entry point
\* catches the exception, the process exits with status 1 and the interactive
\* loop is never entered.
C8_FactoryFailureExitsOne ==
    fpc[agent_type] = "raised" =>
        /\ session = "none"
        /\ pc \in {"create", "except", "exited"}
        /\ pc = "create" => ENABLED CreateRaised
        /\ pc = "except" => ENABLED RunExcept
        /\ pc = "exited" => exit_status = <<1>>

C8_Witness ==
    /\ agent_type = "designer"
    /\ fpc["designer"] = "raised"
    /\ exc.kind = "FileNotFoundError"
    /\ pc = "exited"
    /\ exit_status = <<1>>

C10_NoAcquireNoReleaseInLoop ==
    [][/\ conns' # conns => session = "none"
       /\ session = "running" =>
             (conns' = conns /\ released' = released /\ stacks' = stacks)]_vars

C10_Witness ==
    /\ session = "running"
    /\ pc = "input"
    /\ turns >= 1
    /\ Len(conns) >= 2
    /\ released = <<>>

\* C11: test_mcp_connection never raises and returns False on every failure;
\* it returns True only when the connection was established and the body of
\* the test completed; and once it has returned, every connection that was
\* established has been released.
C11_TestReturnsAndReleases ==
    /\ pc \in {"mt_main", "mt_test", "mt_with", "mt_except", "exited"}
    /\ pc = "mt_except" => exc.by = McpTest
    /\ \A i \in 1..Len(results) :
          /\ results[i].success <=> results[i].printed = "test passed"
          /\ results[i].success =>
                \E c \in Conns : /\ conns[c].server = results[i].server
                                 /\ conns[c].entered
    /\ pc \in {"mt_test", "exited"} =>
          /\ Len(results) = Len(attempts)
          /\ \A c \in Conns : Count(c, released) = 1

\* C15: setup_planning_mcp_tools makes its configuration checks before it
\* spawns anything and in the order path set, path exists, token set: the
\* first check that fails decides the exception, and MCPToolset.from_server
\* was not called.
C15_PlanningChecksBeforeSpawn ==
    LET path_set  == NonEmpty(env["PLANNING_MCP_PATH"])
        token_set == NonEmpty(env["PLANNING_API_TOKEN"])
        config_ok == path_set /\ pathExists /\ token_set
    IN  /\ \A i \in 1..Len(attempts) :
              (attempts[i].server = "planning" /\ ~config_ok) =>
                  /\ ~attempts[i].called
                  /\ \A c \in Conns : conns[c].server # "planning"
        /\ (/\ pc = "mt_except"
            /\ exc.origin = "setup"
            /\ Head(todo) = "planning"
            /\ ~config_ok) =>
              exc.kind = IF ~path_set THEN "ValueError"
                         ELSE IF ~pathExists THEN "FileNotFoundError"
                         ELSE "ValueError"

C15_Witness ==
    /\ pc = "mt_except"
    /\ Head(todo) = "planning"
    /\ NonEmpty(env["PLANNING_MCP_PATH"])
    /\ ~pathExists
    /\ ~NonEmpty(env["PLANNING_API_TOKEN"])
    /\ exc.kind = "FileNotFoundError"
    /\ ~attempts[Len(attempts)].called
    /\ conns = <<>>

\* C12: once the coordinator was created, test_planning_operations closes the
\* coordinator's exit stack exactly once on every path (every operation
\* completed, no plan ID extracted, an operation raised), not before its
\* finally clause; and the process exits with 0 only when all eight operations
\* completed.
C12_PlanningTestClosesOnce ==
    /\ closes[Coordinator] <= 1
    /\ pc \in {"tp_create", "tp_finally"} /\ fpc[Coordinator] = "returned" =>
          closes[Coordinator] = 0
    /\ pc \in {"tp_exit", "exited"} /\ fpc[Coordinator] = "returned" =>
          /\ closes[Coordinator] = 1
          /\ stacks[Coordinator] = <<>>
          /\ success \in {"True", "None", "False"}
    /\ exit_status = <<0>> =>
          /\ success = "True"
          /\ completed = Len(operations)
          /\ Len(operations) = 8

C12_Witness ==
    /\ pc = "exited"
    /\ success = "None"
    /\ completed = ExtractionPoint
    /\ closes[Coordinator] = 1
    /\ exit_status = <<1>>
    /\ Len(released) >= 2

\* C13: with GOOGLE_API_KEY set and no search-engine ID configured (neither
\* GOOGLE_SEARCH_ENGINE_ID nor PROGRAMMABLE_SEARCH_ENGINE_ID is non-empty),
\* search stays available: the research agent that was built has the search
\* tool among its tools.
C13_SearchAvailableByDefault ==
    (/\ fpc["research"] = "returned"
     /\ custom_search_tool_class # "None"
     /\ NonEmpty(env["GOOGLE_API_KEY"])
     /\ ~NonEmpty(env["GOOGLE_SEARCH_ENGINE_ID"])
     /\ ~NonEmpty(env["PROGRAMMABLE_SEARCH_ENGINE_ID"])) =>
        SearchTool \in Range(tools["research"])

\* C14: diagnostics.py exits with 0 exactly when Config.validate() reports no
\* issues; valid depends on the issues alone (on GOOGLE_API_KEY and the
\* planning path), never on what only raises a warning; and a non-empty
\* PLANNING_MCP_PATH that does not exist always produces an issue.
C14_DiagnosticsExitStatus ==
    /\ validation.done =>
          /\ validation.valid <=> validation.issues = <<>>
          /\ validation.valid <=>
                /\ NonEmpty(env["GOOGLE_API_KEY"])
                /\ NonEmpty(env["PLANNING_MCP_PATH"]) => pathExists
          /\ (NonEmpty(env["PLANNING_MCP_PATH"]) /\ ~pathExists) =>
                "PLANNING_MCP_PATH" \in Range(validation.issues)
    /\ (pc = "exited" /\ validation.done) =>
          (exit_status = <<0>> <=> validation.issues = <<>>)

C14_Witness ==
    /\ pc = "exited"
    /\ exit_status = <<0>>
    /\ validation.done
    /\ Len(validation.warnings) = 3
    /\ pathExists

\* C16: when setup_planning_mcp_tools raised inside create_coordinator_agent,
\* no specialized factory was called, the coordinator's exit stack was closed,
\* the exception was re-raised, and no tool connection is left open.
C16_PlanningFailureAbortsCleanly ==
    (fpc[Coordinator] = "raised" /\ cause[Coordinator] = "setup") =>
        /\ \A f \in Specialized : calls[f] = 0 /\ fpc[f] = "idle"
        /\ sub_agents = <<>>
        /\ closes[Coordinator] = 1
        /\ exc.by = Coordinator
        /\ exc.kind \in {"ValueError", "FileNotFoundError", "Exception"}
        /\ \A c \in Conns : Count(c, released) >= 1

\* C17: when a factory raised after it had acquired connections, its exit
\* stack was closed exactly once and each connection entered on it was
\* released exactly once, during startup, before the exception left the
\* factory; the coordinator that caught the exception holds neither the agent
\* nor its stack, so nothing is released again at shutdown.
C17_FactoryFailureReleasesOwn ==
    \A a \in AgentTypes :
        fpc[a] = "raised" =>
            /\ closes[a] = 1
            /\ stacks[a] = <<>>
            /\ \A c \in Conns :
                  (conns[c].owner = a /\ conns[c].entered) =>
                      /\ Count(c, released) = 1
                      /\ [conn |-> c, at |-> "startup"] \in Range(released)
            /\ a \in Specialized =>
                  /\ StackEntry(a) \notin Range(stacks[Coordinator])
                  /\ a \notin Range(sub_agents)

C17_Witness ==
    /\ agent_type = Coordinator
    /\ pc = "exited"
    /\ exit_status = <<0>>
    /\ fpc["backend"] = "raised"
    /\ cause["backend"] = "agent"
    /\ SucceededSetups("backend") = <<"filesystem", "context7">>
    /\ Len(released) >= 3

\* C18: a connection spawned by MCPToolset.from_server whose result the
\* setup function then rejects (it raises ValueError at the return-value
\* check) has been released: it does not stay open.
C18_RejectedConnectionReleased ==
    \A c \in Conns : ~conns[c].entered => Count(c, released) >= 1

\* the servers factory a has called a setup function for, in order
AttemptsOf(a) ==
    LET mine == SelectSeq(attempts, LAMBDA t : t.owner = a)
    IN  [i \in 1..Len(mine) |-> mine[i].server]

\* the setup calls written in factory a, in order
SetupSites(a) ==
    CASE a = Coordinator              -> <<"planning">>
      [] a \in {"backend", "frontend"} -> <<"filesystem", "context7">>
      [] a = "designer"               -> <<"filesystem">>
      [] a = "tester"                 -> <<"playwright", "filesystem">>
      [] a = "optimizer"              -> <<"planning">>
      [] OTHER                        -> <<>>

IsPrefix(p, q) == Len(p) <= Len(q) /\ SubSeq(q, 1, Len(p)) = p

\* C19: nothing is retried. No factory is called twice, and once the
\* coordinator's loop is over each specialized factory was called exactly
\* once; the setups a factory has attempted are its setup calls in order, each
\* at most once, and all of them exactly once when the factory reaches the
\* construction of its agent, whether they failed or not; nothing is attempted
\* once the session has started.
C19_NoRetry ==
    /\ \A a \in AgentTypes :
          /\ calls[a] <= 1
          /\ IsPrefix(AttemptsOf(a), SetupSites(a))
          /\ fpc[a] \in {"agent", "returned"} => AttemptsOf(a) = SetupSites(a)
          /\ fpc[a] = "idle" => AttemptsOf(a) = <<>>
    /\ (agent_type = Coordinator /\ idx > Len(specialized_agent_factories)) =>
          \A f \in Specialized : calls[f] = 1
    /\ session # "none" =>
          \A a \in AgentTypes : fpc[a] \in {"idle", "returned", "raised"}

C19_Witness ==
    /\ agent_type = Coordinator
    /\ session = "running"
    /\ pc = "input"
    /\ turns >= 1
    /\ \A f \in Specialized : calls[f] = 1
    /\ AttemptsOf("tester") = <<"playwright", "filesystem">>
    /\ SucceededSetups("tester") = <<"filesystem">>

\* the lines of Inputs that are exit or quit in some letter case
AnyCaseExit == {"exit", "quit", "EXIT", "Quit"}

C21_InstructionNamesSubAgents ==
    fpc[Coordinator] = "returned" =>
        LET ins == instruction[Coordinator] IN
        /\ \A f \in Specialized :
              /\ name(f) \in Range(ins.delegation) <=> f \in Range(sub_agents)
              /\ name(f) \in Range(ins.workflow) <=> f \in Range(sub_agents)
        /\ Len(ins.delegation) = Len(sub_agents)
        /\ NoAgentsNote \in Range(ins.workflow) <=> sub_agents = <<>>
        /\ sub_agents = <<>> => ins.workflow = <<NoAgentsNote>>
        /\ sub_agents # <<>> => Len(ins.workflow) = Len(sub_agents)

C21_Witness ==
    /\ fpc[Coordinator] = "returned"
    /\ sub_agents = <<"frontend", "tester">>
    /\ instruction[Coordinator].delegation
          = <<"frontend_developer_agent", "tester_agent">>
    /\ cause["designer"] = "setup"

\* C22: once create_research_agent has set up its tool, the agent's tools
\* contain the search tool exactly when the class was imported, GOOGLE_API_KEY
\* and PROGRAMMABLE_SEARCH_ENGINE_ID are non-empty and the construction did
\* not raise, and are empty otherwise; the instruction of the agent built
\* tells it to call the tool exactly in that case and otherwise says that web
\* search is unavailable.
C22_ResearchToolsMatchInstruction ==
    LET available == /\ custom_search_tool_class # "None"
                     /\ NonEmpty(env["GOOGLE_API_KEY"])
                     /\ NonEmpty(env["PROGRAMMABLE_SEARCH_ENGINE_ID"])
                     /\ research.constructed # "raised"
    IN  /\ fpc["research"] \in {"agent", "except", "returned", "raised"} =>
              tools["research"] = IF available THEN <<SearchTool>> ELSE <<>>
        /\ fpc["research"] = "returned" =>
              instruction["research"].search =
                  IF available THEN SearchTool ELSE "unavailable"

C22_Witness ==
    /\ fpc["research"] = "returned"
    /\ research.constructed = "raised"
    /\ tools["research"] = <<>>
    /\ instruction["research"].search = "unavailable"
    /\ NonEmpty(env["PROGRAMMABLE_SEARCH_ENGINE_ID"])

\* C23: in Config the planning server is enabled exactly when
\* PLANNING_MCP_PATH and PLANNING_API_TOKEN are both non-empty, the websearch
\* server exactly when BRAVE_API_KEY is non-empty, and filesystem, context7
\* and playwright always; get_enabled_mcp_servers() returns exactly the
\* servers whose flag is true, each once, and leaves the Config as it was
\* built.
C23_EnabledServers ==
    /\ config.loaded =>
          /\ config.enabled["planning"] <=>
                (NonEmpty(env["PLANNING_MCP_PATH"])
                 /\ NonEmpty(env["PLANNING_API_TOKEN"]))
          /\ config.enabled["websearch"] <=> NonEmpty(env["BRAVE_API_KEY"])
          /\ config.enabled["filesystem"]
          /\ config.enabled["context7"]
          /\ config.enabled["playwright"]
    /\ summary.done =>
          /\ Range(summary.servers) = {n \in Range(mcp_servers) : config.enabled[n]}
          /\ Len(summary.servers) = Cardinality(Range(summary.servers))
          /\ {"filesystem", "context7", "playwright"} \subseteq Range(summary.servers)
          /\ config = ConfigInit(env)

C23_Witness ==
    /\ pc = "exited"
    /\ summary.done
    /\ summary.servers = <<"filesystem", "context7", "playwright", "websearch">>
    /\ NonEmpty(env["PLANNING_MCP_PATH"])
    /\ env["PLANNING_API_TOKEN"] = "empty"

\* C24: the research agent's search tool never raises from _arun and reports
\* failures as values: with an uninitialized service, on an HTTP error and on
\* any other exception the dictionary returned has status error; on success
\* it has status success and one result per item returned, none when the
\* search found nothing.
C24_SearchErrorsAreValues ==
    search.tool = "research" =>
        /\ pc \in {"search_call", "search_api", "search_done"}
        /\ pc = "search_done" =>
              /\ search_result.status \in {"success", "error"}
              /\ ~search.service =>
                    (search_result.status = "error" /\ ~request.sent)
              /\ request.response \in {"HttpError", "Exception"} =>
                    (search_result.status = "error"
                     /\ search_result.results = 0)
              /\ request.response = "items" =>
                    (search_result.status = "success"
                     /\ search_result.results = request.items)
              /\ search_result.status = "success" =>
                    request.response = "items"

C24_Witness ==
    /\ search.tool = "research"
    /\ pc = "search_done"
    /\ request.response = "Exception"
    /\ search_result.status = "error"
    /\ search_result.message = "Unexpected error during search"

\* C25: for every integer num_results, zero and negative values included,
\* the count either search tool passes to the search API lies between 1 and
\* 10.
C25_RequestedCountInRange ==
    request.sent => (request.num >= 1 /\ request.num <= 10)

\* the number of entries written for path f
EntryCount(f) == Len(SelectSeq(entries, LAMBDA e : e = f))

\* the files the script is said to leave out: named .env or
\* createLLMContext.py or by --exclude-files, or below a directory named
\* .venv, outputs or logs
LeftOut(f) ==
    \/ f[Len(f)] \in {".env", "createLLMContext.py"} \cup args_exclude_files
    \/ \E i \in 1..(Len(f) - 1) : f[i] \in {".venv", "outputs", "logs"}

\* C26: when generate_markdown_context has finished, no entry was written
\* for a file named .env or createLLMContext.py or named with --exclude-files,
\* nor for a file below a directory named .venv, outputs or logs, and every
\* other file under the root has exactly one entry.
C26_ExcludedFilesHaveNoEntry ==
    pc = "exited" =>
        \A f \in files : EntryCount(f) = IF LeftOut(f) THEN 0 ELSE 1

\* C27: in the all mode of test_mcp_tools.py the four servers are tested in
\* the order planning, context7, filesystem, playwright, each of them whatever
\* the earlier tests returned; when the next test starts, and at exit, every
\* connection spawned so far has been released; and the process exits with 0
\* exactly when all four tests returned True.
C27_AllModeSequential ==
    args_server = "all" =>
        /\ [i \in 1..Len(results) |-> results[i].server]
              = SubSeq(servers, 1, Len(results))
        /\ pc \in {"mt_test", "mt_with", "mt_except"} =>
              todo = SubSeq(servers, Len(results) + 1, Len(servers))
        /\ pc \in {"mt_test", "exited"} =>
              \A c \in Conns : Count(c, released) = 1
        /\ pc = "exited" =>
              /\ Len(results) = Len(servers)
              /\ exit_status = <<0>> <=>
                    \A i \in 1..Len(results) : results[i].success

\* C28: a run of run.py whose agent was created successfully (the factory of
\* the selected agent returned) ends with exit status 0, however its session
\* ended, with the session's finally clause behind it.
C28_CreatedAgentExitsZero ==
    (pc = "exited" /\ fpc[agent_type] = "returned") =>
        /\ session = "ended"
        /\ exit_status = <<0>>

=============================================================================
